---- MODULE Spec2Model ----
(***************************************************************************)
(* A model of pvlive_api/pvlive.py: the PVLive client of the PV_Live web   *)
(* API.  The model covers the retrying fetcher (_fetch_url), the half-hour *)
(* rounding of timestamps (_nearest_hh) and the chunked range query        *)
(* (between).                                                              *)
(*                                                                         *)
(* A datetime is a record [sec, us]: whole seconds since an epoch that is  *)
(* a midnight, and the microsecond field.  All datetimes are aware and in  *)
(* one timezone (UTC), so the wall-clock fields are functions of sec.      *)
(* A timedelta is a whole number of seconds: every timedelta the program   *)
(* builds is one.                                                          *)
(***************************************************************************)
EXTENDS Integers, Sequences, FiniteSets, TLC

(***************************************************************************)
(* Bounds of the model.                                                    *)
(***************************************************************************)
\* the largest retry count a client is constructed with
MaxRetries == 3
\* the largest number of whole (max_range + 30 minutes) steps in a window
MaxSteps == 2
\* the hours of the day the arguments of _nearest_hh are drawn from
MaxHour == 1

(***************************************************************************)
(* datetime and timedelta                                                  *)
(***************************************************************************)
timedelta(days, minutes, seconds) == days * 86400 + minutes * 60 + seconds

DT(s, u) == [sec |-> s, us |-> u]

minute(dt) == (dt.sec \div 60) % 60

second(dt) == dt.sec % 60

microsecond(dt) == dt.us

\* dt + td
Plus(dt, td) == [sec |-> dt.sec + td, us |-> dt.us]

\* a < b on datetimes
Lt(a, b) == a.sec < b.sec \/ (a.sec = b.sec /\ a.us < b.us)

Le(a, b) == Lt(a, b) \/ a = b

\* Python's min(a, b): the first argument unless the second is smaller
min(a, b) == IF Lt(b, a) THEN b ELSE a

(***************************************************************************)
(* PVLive._nearest_hh                                                      *)
(***************************************************************************)
_nearest_hh(dt) ==
    IF ~(minute(dt) % 30 = 0 /\ second(dt) = 0 /\ microsecond(dt) = 0)
    THEN Plus(Plus(dt, 0 - timedelta(0, minute(dt) % 30, second(dt))), timedelta(0, 30, 0))
    ELSE dt

(***************************************************************************)
(* PVLive.__init__                                                         *)
(***************************************************************************)
max_range_national == timedelta(365, 0, 0)

max_range_regional == timedelta(30, 0, 0)

one_interval == timedelta(0, 30, 0)

(***************************************************************************)
(* Pieces of PVLive.between                                                *)
(***************************************************************************)
MaxRange(id) == IF id = 0 THEN max_range_national ELSE max_range_regional

\* the test of the while loop
BetweenCond(rs, e) == Lt(rs, e)

ExtendInFront(d, rows) == rows \o d

\* data += rows
Extend(d, rows) == d \o rows

RequestEnd(e, rs, mr) == min(e, Plus(rs, mr))

NextRequestStartNoGap(rs, mr) == Plus(rs, mr)

NextRequestStartStuck(rs, mr) == rs

NextRequestStart(rs, mr) == Plus(rs, mr + one_interval)

(***************************************************************************)
(* Pieces of PVLive._fetch_url                                             *)
(***************************************************************************)
FetchCondNoSuccessTest(s, t, r) == t < r + 1

FetchCondOneMore(s, t, r) == ~s /\ t < r + 2

FetchCondOneLess(s, t, r) == ~s /\ t < r

\* the test of the while loop
FetchCond(s, t, r) == ~s /\ t < r + 1

NextDelayConstant(d) == d

NextDelay(d) == d * 2

\* which failures of requests.get / raise_for_status are caught and retried
RetriedAll(kind) == kind \in {"HTTPError", "ConnectionError"}

Retried(kind) == kind = "HTTPError"

\* the body of a response: text that is a JSON document, or text that is not
JsonText(d) == <<"json", d>>

Garbage == <<"garbage">>

IsJson(text) == text[1] = "json"

json_loads(text) == [data |-> text[2]]

ParseFailureReraised(text) == "JSONDecodeError"

\* what lines 306-307 raise when json.loads fails on text
ParseFailure(text) == "PVLiveException"

\* None where a datetime is expected
NoDT == DT(0 - 1, 0)

(***************************************************************************)
(* Values of the rows.  A float is an integer number of tenths (2.0 is 20, *)
(* 0.5 is 5), on which the order and the sums of the values drawn here are *)
(* exact; the float -1e308 of line 218 is the integer NegHuge, which is    *)
(* under every generation value drawn here.  A value is a record so that   *)
(* None compares with a number.                                            *)
(***************************************************************************)
Val(v) == [none |-> FALSE, v |-> v]

None == [none |-> TRUE, v |-> 0]

Unit == 10

Half == 5

NegHuge == 0 - 1000000

\* a row [pes_id, datetime_GMT, generation_MW] of response["data"]
Row(t, g) == <<Val(0), Val(t), g>>

\* x[2] of a row x
Generation(x) == x[3]

\* the placeholder (None, None, None)
Placeholder == <<None, None, None>>

(***************************************************************************)
(* PVLive.day_peak, lines 218-219                                          *)
(***************************************************************************)
GensNoneAsZero(rows) ==
    [i \in 1..Len(rows) |->
        IF ~Generation(rows[i]).none THEN Generation(rows[i]).v ELSE 0]

\* gens of line 218
Gens(rows) ==
    [i \in 1..Len(rows) |->
        IF ~Generation(rows[i]).none THEN Generation(rows[i]).v ELSE NegHuge]

IndexMaxLast(g) ==
    CHOOSE i \in 1..Len(g) :
        /\ \A j \in 1..Len(g) : g[j] <= g[i]
        /\ \A j \in (i + 1)..Len(g) : g[j] < g[i]

\* max(range(len(gens)), key=gens.__getitem__): the first index of a largest
\* element, as an index from 1
IndexMax(g) ==
    CHOOSE i \in 1..Len(g) :
        /\ \A j \in 1..Len(g) : g[j] <= g[i]
        /\ \A j \in 1..(i - 1) : g[j] < g[i]

(***************************************************************************)
(* PVLive.day_energy, line 251                                             *)
(***************************************************************************)
RECURSIVE sum(_)
sum(xs) == IF xs = << >> THEN 0 ELSE xs[1] + sum(Tail(xs))

EnergyTermsNoneAsSentinel(rows) == Gens(rows)

\* [x[2] if x[2] is not None else 0 for x in response["data"]]
EnergyTerms(rows) ==
    [i \in 1..Len(rows) |->
        IF ~Generation(rows[i]).none THEN Generation(rows[i]).v ELSE 0]

\* a * b on floats
Times(a, b) == (a * b) \div Unit

(***************************************************************************)
(* PVLive._compile_params and PVLive._build_url                            *)
(***************************************************************************)
\* dt.isoformat(): the fields of the text, the microseconds being printed
\* only when they are not zero and the offset only for an aware datetime
isoformat(dt, aware) ==
    [date |-> dt.sec \div 86400,
     time |-> <<(dt.sec \div 3600) % 24, minute(dt), second(dt)>>
              \o (IF microsecond(dt) # 0 THEN <<microsecond(dt)>> ELSE << >>),
     offset |-> IF aware THEN "+00:00" ELSE ""]

\* text.replace('+00:00', 'Z')
replace_utc(text) ==
    [text EXCEPT !.offset = IF @ = "+00:00" THEN "Z" ELSE @]

EmptyParams == << >>

compile_params_no_default(ef, s, e) ==
    (IF ef # "" THEN "extra_fields" :> ef ELSE EmptyParams)
    @@ (IF s # NoDT THEN "start" :> replace_utc(isoformat(s.dt, s.aware)) ELSE EmptyParams)
    @@ (IF e # NoDT THEN "end" :> replace_utc(isoformat(e.dt, e.aware)) ELSE EmptyParams)

\* _compile_params(extra_fields, start, end); an argument that is None is
\* NoDT, another one is [dt, aware]
_compile_params(ef, s, e) ==
    (IF ef # "" THEN "extra_fields" :> ef ELSE EmptyParams)
    @@ (IF s # NoDT THEN "start" :> replace_utc(isoformat(s.dt, s.aware)) ELSE EmptyParams)
    @@ (LET e2 == IF s # NoDT /\ e = NoDT THEN s ELSE e
        IN IF e2 # NoDT THEN "end" :> replace_utc(isoformat(e2.dt, e2.aware)) ELSE EmptyParams)

\* the URL of _build_url: the region id and the parameters it is built from
_build_url(id, params) == [pes_id |-> id, params |-> params]

(***************************************************************************)
(* The inputs the model draws from.                                        *)
(***************************************************************************)
\* region ids: the nation and one region
PesIds == {0, 1}

\* integers that are not region ids
BadPesIds == {0 - 1, 328}

\* the test of line 73, on an integer
ValidPesId(id) == id \in 0..327

\* extra_fields: none, or one field
ExtraFields == {"", "ucl_mw"}

\* what a caller passes for a timestamp: an aware datetime, a naive
\* datetime, or an object that is not a datetime (no tzinfo, no minute)
TsKinds == {"aware", "naive", "other"}

\* the days day_peak and day_energy are asked for
Days == {0, 1}

\* the first argument of between: on a boundary, one minute past it, and one
\* microsecond past it
Starts == {DT(0, 0), DT(60, 0), DT(0, 1)}

\* window lengths around the multiples of max_range + 30 minutes, and the
\* 400 days of a nationwide query
Offsets(id) ==
    {k * (MaxRange(id) + one_interval) + d :
        k \in 0..MaxSteps, d \in {0, one_interval, MaxRange(id)}}
    \cup (IF id = 0 THEN {timedelta(400, 0, 0)} ELSE {})

Ends(id) == {DT(o, 0) : o \in Offsets(id)} \cup {DT(one_interval, 1)}

\* the ends of windows of one chunk at most
ShortEnds == {DT(0, 0), DT(timedelta(0, 90, 0), 0)}

\* the rows a response to latest, at_time or a chunk of between carries
DataOptions ==
    {<< >>, <<Row(1, Val(20)), Row(2, Val(50))>>, <<Row(3, Val(40))>>}

\* the rows a response to day_peak or day_energy carries
DayDataOptions ==
    {<< >>,
     <<Row(1, Val(20)), Row(2, Val(50)), Row(3, None), Row(4, Val(50))>>,
     <<Row(1, Val(20)), Row(2, None), Row(3, Val(40))>>,
     <<Row(1, None), Row(2, None)>>,
     <<Row(1, None), Row(2, Val(0 - 30))>>}

\* what one requests.get followed by raise_for_status can do
Responses(o) ==
    {[kind |-> "HTTPError"], [kind |-> "ConnectionError"]}
    \cup {[kind |-> "OK", text |-> Garbage]}
    \cup {[kind |-> "OK", text |-> JsonText(d)] :
            d \in IF o \in {"day_peak", "day_energy"}
                  THEN DayDataOptions ELSE DataOptions}

AllResponses == Responses("between") \cup Responses("day_peak")

Unbound == [unbound |-> TRUE]

(***************************************************************************)
(* State                                                                   *)
(***************************************************************************)
VARIABLES
    retries,        \* self.retries
    pc,             \* "idle", "between", "fetch", "done"; "norm" in SpecNorm
    op,             \* the public operation called, "none" before the call
    extra_fields,   \* the extra_fields argument
    ts_kind,        \* what the timestamp arguments are: see TsKinds
    queries,        \* the URL of each _query_api call made
    chunks,         \* between: response["data"] of each chunk fetched
    result,         \* the value returned
    outcome,        \* "none", "return" or the name of the exception raised
    start,          \* between: start, after line 165
    end,            \* between: end, after line 166
    pes_id,         \* between: pes_id
    data_frame,     \* between: data_frame
    data,           \* between: data
    request_start,  \* between: request_start
    max_range,      \* between: max_range
    response,       \* between: response, Unbound until the first assignment
    issued,         \* the start/end parameters of each _query_api call made
    success,        \* _fetch_url: success
    try_counter,    \* _fetch_url: try_counter
    delay,          \* _fetch_url: delay
    page,           \* _fetch_url: page
    gets,           \* what each requests.get of the current fetch did
    sleeps,         \* the argument of each sleep of the current fetch
    fetched,        \* how the last _fetch_url ended
    nh_in,          \* the argument of a run of _nearest_hh calls
    nh_out          \* the results of _nearest_hh, then of _nearest_hh on it

betweenVars == <<start, end, pes_id, data_frame, data, request_start,
                 max_range, response, issued>>

fetchVars == <<success, try_counter, delay, page, gets, sleeps, fetched>>

nhVars == <<nh_in, nh_out>>

callVars == <<extra_fields, ts_kind, queries, chunks, result>>

vars == <<retries, pc, op, outcome, callVars, betweenVars, fetchVars, nhVars>>

NoResult == <<"no result">>

NoPage == [kind |-> "none"]

Pending == [kind |-> "pending"]

InitLocals ==
    /\ op = "none"
    /\ outcome = "none"
    /\ extra_fields = "" /\ ts_kind = "aware" /\ queries = << >>
    /\ chunks = << >> /\ result = NoResult
    /\ start = NoDT /\ end = NoDT /\ pes_id = 0 /\ data_frame = FALSE
    /\ data = << >> /\ request_start = NoDT /\ max_range = 0
    /\ response = Unbound /\ issued = << >>
    /\ success = FALSE /\ try_counter = 0 /\ delay = 1 /\ page = NoPage
    /\ gets = << >> /\ sleeps = << >> /\ fetched = Pending

\* PVLive.__init__ with a retry count, before any call
Init ==
    /\ retries \in 0..MaxRetries
    /\ pc = "idle"
    /\ InitLocals
    /\ nh_in = NoDT /\ nh_out = << >>

(***************************************************************************)
(* PVLive.between, lines 161-169: the arguments are rounded and the loop   *)
(* is set up.  The PVLiveException of line 164 is built and not raised.    *)
(* start and end are both aware or both naive datetimes.                   *)
(***************************************************************************)
CallBetween(aware, s, e, id, df, ef) ==
    /\ pc = "idle"
    /\ ts_kind' = IF aware THEN "aware" ELSE "naive"
    /\ extra_fields' = ef
    /\ start' = _nearest_hh(s)
    /\ end' = _nearest_hh(e)
    /\ pes_id' = id
    /\ data_frame' = df
    /\ data' = << >>
    /\ request_start' = _nearest_hh(s)
    /\ max_range' = MaxRange(id)
    /\ pc' = "between"
    /\ op' = "between"
    /\ UNCHANGED <<retries, outcome, response, issued, fetchVars, nhVars,
                   queries, chunks, result>>

(***************************************************************************)
(* PVLive.between, lines 170-173: one more chunk is requested, which       *)
(* enters _fetch_url (lines 286-288) through _query_api.                   *)
(***************************************************************************)
BetweenRequest ==
    /\ pc = "between"
    /\ BetweenCond(request_start, end)
    /\ issued' = Append(issued,
                   [start |-> request_start,
                    end |-> RequestEnd(end, request_start, max_range)])
    /\ queries' = Append(queries,
                    _build_url(pes_id,
                      _compile_params(extra_fields,
                        [dt |-> request_start, aware |-> ts_kind = "aware"],
                        [dt |-> RequestEnd(end, request_start, max_range),
                         aware |-> ts_kind = "aware"])))
    /\ success' = FALSE
    /\ try_counter' = 0
    /\ delay' = 1
    /\ page' = NoPage
    /\ gets' = << >>
    /\ sleeps' = << >>
    /\ fetched' = Pending
    /\ pc' = "fetch"
    /\ UNCHANGED <<retries, op, outcome, start, end, pes_id, data_frame, data,
                   request_start, max_range, response, nhVars,
                   extra_fields, ts_kind, chunks, result>>

(***************************************************************************)
(* PVLive.between, lines 176-179: the loop is over.  With data_frame set   *)
(* line 177 reads response, which no iteration may have assigned.          *)
(***************************************************************************)
BetweenReturn ==
    /\ pc = "between"
    /\ ~BetweenCond(request_start, end)
    /\ op = "between"
    /\ outcome' = IF data_frame /\ response = Unbound
                  THEN "UnboundLocalError" ELSE "return"
    /\ result' = IF data_frame /\ response = Unbound THEN result ELSE data
    /\ pc' = "done"
    /\ UNCHANGED <<retries, op, betweenVars, fetchVars, nhVars,
                   extra_fields, ts_kind, queries, chunks>>

(***************************************************************************)
(* PVLive._fetch_url, lines 289-301: one iteration of the loop.            *)
(***************************************************************************)
FetchAttempt(r) ==
    /\ pc = "fetch"
    /\ r \in Responses(op)
    /\ FetchCond(success, try_counter, retries)
    /\ try_counter' = try_counter + 1
    /\ gets' = Append(gets, r)
    /\ IF r.kind = "OK"
       THEN /\ page' = r
            /\ success' = TRUE
            /\ UNCHANGED <<delay, sleeps, fetched, pc, outcome>>
       ELSE IF Retried(r.kind)
       THEN /\ sleeps' = Append(sleeps, delay)
            /\ delay' = NextDelay(delay)
            /\ UNCHANGED <<page, success, fetched, pc, outcome>>
       ELSE /\ fetched' = [kind |-> r.kind]
            /\ outcome' = r.kind
            /\ pc' = "done"
            /\ UNCHANGED <<page, success, delay, sleeps>>
    /\ UNCHANGED <<retries, op, betweenVars, nhVars, callVars>>

(***************************************************************************)
(* PVLive._fetch_url, lines 302-303: the loop ended without a success.     *)
(***************************************************************************)
FetchExhausted ==
    /\ pc = "fetch"
    /\ ~FetchCond(success, try_counter, retries)
    /\ ~success
    /\ fetched' = [kind |-> "PVLiveException"]
    /\ outcome' = "PVLiveException"
    /\ pc' = "done"
    /\ UNCHANGED <<retries, op, betweenVars, success, try_counter, delay, page,
                   gets, sleeps, nhVars, callVars>>

(***************************************************************************)
(* PVLive._fetch_url, lines 304-307, with a body that is not JSON.         *)
(***************************************************************************)
FetchParseError ==
    /\ pc = "fetch"
    /\ ~FetchCond(success, try_counter, retries)
    /\ success
    /\ ~IsJson(page.text)
    /\ fetched' = [kind |-> ParseFailure(page.text)]
    /\ outcome' = ParseFailure(page.text)
    /\ pc' = "done"
    /\ UNCHANGED <<retries, op, betweenVars, success, try_counter, delay, page,
                   gets, sleeps, nhVars, callVars>>

(***************************************************************************)
(* PVLive._fetch_url, lines 304-305, returning to PVLive.between, lines    *)
(* 173-175.                                                                *)
(***************************************************************************)
FetchReturn ==
    /\ pc = "fetch"
    /\ op = "between"
    /\ ~FetchCond(success, try_counter, retries)
    /\ success
    /\ IsJson(page.text)
    /\ fetched' = [kind |-> "return", value |-> json_loads(page.text)]
    /\ response' = json_loads(page.text)
    /\ data' = Extend(data, json_loads(page.text).data)
    /\ chunks' = Append(chunks, json_loads(page.text).data)
    /\ request_start' = NextRequestStart(request_start, max_range)
    /\ pc' = "between"
    /\ UNCHANGED <<retries, op, outcome, start, end, pes_id, data_frame,
                   max_range, issued, success, try_counter, delay, page,
                   gets, sleeps, nhVars, extra_fields, ts_kind, queries,
                   result>>

(***************************************************************************)
(* PVLive._fetch_url, lines 286-288, entered through _query_api (lines     *)
(* 267-271) with the URL of the parameters compiled from ef, s and e.      *)
(***************************************************************************)
QueryApi(id, ef, s, e, aware) ==
    /\ issued' = Append(issued, [start |-> s, end |-> e])
    /\ queries' = Append(queries,
                    _build_url(id,
                      _compile_params(ef,
                        IF s = NoDT THEN NoDT ELSE [dt |-> s, aware |-> aware],
                        IF e = NoDT THEN NoDT ELSE [dt |-> e, aware |-> aware])))
    /\ success' = FALSE
    /\ try_counter' = 0
    /\ delay' = 1
    /\ page' = NoPage
    /\ gets' = << >>
    /\ sleeps' = << >>
    /\ fetched' = Pending
    /\ pc' = "fetch"

\* an exception raised before any request
Raise(o, e) ==
    /\ op' = o
    /\ outcome' = e
    /\ pc' = "done"
    /\ UNCHANGED <<issued, queries, fetchVars>>

(***************************************************************************)
(* PVLive.between, lines 161-170, with arguments that are not two aware or *)
(* two naive datetimes.  An object that is not a datetime has no tzinfo    *)
(* (line 162) and no minute (line 166, when line 162 stops at a naive      *)
(* start); a naive and an aware datetime do not compare (line 170).        *)
(***************************************************************************)
CallBetweenRaises(sk, ek, id, df) ==
    /\ pc = "idle"
    /\ sk # ek \/ sk = "other"
    /\ ts_kind' = IF "other" \in {sk, ek} THEN "other" ELSE "mixed"
    /\ pes_id' = id
    /\ data_frame' = df
    /\ Raise("between",
             IF "other" \in {sk, ek} THEN "AttributeError" ELSE "TypeError")
    /\ UNCHANGED <<retries, extra_fields, chunks, result, start, end, data,
                   request_start, max_range, response, nhVars>>

(***************************************************************************)
(* PVLive.latest, lines 73-78                                              *)
(***************************************************************************)
CallLatest(id, df, ef) ==
    /\ pc = "idle"
    /\ pes_id' = id
    /\ data_frame' = df
    /\ extra_fields' = ef
    /\ IF ~ValidPesId(id)
       THEN Raise("latest", "PVLiveException")
       ELSE /\ op' = "latest"
            /\ QueryApi(id, ef, NoDT, NoDT, TRUE)
            /\ UNCHANGED outcome
    /\ UNCHANGED <<retries, ts_kind, chunks, result, start, end, data,
                   request_start, max_range, response, nhVars>>

(***************************************************************************)
(* PVLive.at_time, lines 116-120.  The PVLiveException of line 117 is      *)
(* built and not raised; an object that is not a datetime has no minute    *)
(* (line 311).                                                             *)
(***************************************************************************)
CallAtTime(k, dt, id, df, ef) ==
    /\ pc = "idle"
    /\ ts_kind' = k
    /\ pes_id' = id
    /\ data_frame' = df
    /\ extra_fields' = ef
    /\ IF k = "other"
       THEN /\ Raise("at_time", "AttributeError")
            /\ UNCHANGED <<start, nhVars>>
       ELSE /\ op' = "at_time"
            /\ nh_in' = dt
            /\ nh_out' = <<_nearest_hh(dt)>>
            /\ start' = _nearest_hh(dt)
            /\ QueryApi(id, ef, _nearest_hh(dt), NoDT, k = "aware")
            /\ UNCHANGED outcome
    /\ UNCHANGED <<retries, chunks, result, end, data, request_start,
                   max_range, response>>

(***************************************************************************)
(* PVLive.day_peak, lines 211-216, and PVLive.day_energy, lines 244-249.   *)
(* The PVLiveException of lines 212 and 245 is built and not raised;       *)
(* datetime.combine raises TypeError on an object that is not a date.      *)
(***************************************************************************)
DayStart(d) == DT(timedelta(d, 30, 0), 0)

DayEnd(d) == Plus(Plus(DayStart(d), timedelta(1, 0, 0)), 0 - timedelta(0, 30, 0))

CallDay(o, isdate, d, id, df, ef) ==
    /\ pc = "idle"
    /\ ts_kind' = IF isdate THEN "aware" ELSE "other"
    /\ pes_id' = id
    /\ data_frame' = df
    /\ extra_fields' = ef
    /\ IF ~isdate
       THEN /\ Raise(o, "TypeError")
            /\ UNCHANGED <<start, end>>
       ELSE /\ op' = o
            /\ start' = DayStart(d)
            /\ end' = DayEnd(d)
            /\ QueryApi(id, ef, DayStart(d), DayEnd(d), TRUE)
            /\ UNCHANGED outcome
    /\ UNCHANGED <<retries, chunks, result, data, request_start, max_range,
                   response, nhVars>>

CallDayPeak(isdate, d, id, df, ef) == CallDay("day_peak", isdate, d, id, df, ef)

CallDayEnergy(isdate, d, id) == CallDay("day_energy", isdate, d, id, FALSE, "")

(***************************************************************************)
(* The return of _fetch_url (lines 304-305) into an operation that makes   *)
(* one query.                                                              *)
(***************************************************************************)
Returns(value) ==
    /\ pc = "fetch"
    /\ ~FetchCond(success, try_counter, retries)
    /\ success
    /\ IsJson(page.text)
    /\ fetched' = [kind |-> "return", value |-> json_loads(page.text)]
    /\ response' = json_loads(page.text)
    /\ result' = value
    /\ outcome' = "return"
    /\ pc' = "done"
    /\ UNCHANGED <<retries, op, extra_fields, ts_kind, queries, chunks, start,
                   end, pes_id, data_frame, data, request_start, max_range,
                   issued, success, try_counter, delay, page, gets, sleeps,
                   nhVars>>

\* PVLive.latest, lines 79-83, and PVLive.at_time, lines 121-125
PointReturn ==
    /\ op \in {"latest", "at_time"}
    /\ pc = "fetch" /\ success /\ IsJson(page.text)
    /\ Returns(IF json_loads(page.text).data # << >>
               THEN json_loads(page.text).data[1]
               ELSE Placeholder)

\* PVLive.day_peak, lines 217-223
DayPeakReturn ==
    /\ op = "day_peak"
    /\ pc = "fetch" /\ success /\ IsJson(page.text)
    /\ Returns(IF json_loads(page.text).data # << >>
               THEN json_loads(page.text).data[
                        IndexMax(Gens(json_loads(page.text).data))]
               ELSE Placeholder)

\* PVLive.day_energy, lines 250-253
DayEnergyReturn ==
    /\ op = "day_energy"
    /\ pc = "fetch" /\ success /\ IsJson(page.text)
    /\ Returns(IF json_loads(page.text).data # << >>
               THEN Val(Times(sum(EnergyTerms(json_loads(page.text).data)), Half))
               ELSE None)

Next ==
    \/ \E id \in PesIds : \E s \in Starts : \E e \in Ends(id) :
         \E df \in BOOLEAN : CallBetween(TRUE, s, e, id, df, "")
    \/ \E s \in Starts : \E e \in ShortEnds : \E df \in BOOLEAN :
         \E id \in {1, 328} : \E aware \in BOOLEAN :
           CallBetween(aware, s, e, id, df, "ucl_mw")
    \/ \E sk \in TsKinds : \E ek \in TsKinds : \E id \in PesIds :
         \E df \in BOOLEAN : CallBetweenRaises(sk, ek, id, df)
    \/ \E id \in PesIds \cup BadPesIds : \E df \in BOOLEAN :
         \E ef \in ExtraFields : CallLatest(id, df, ef)
    \/ \E k \in TsKinds : \E dt \in Starts : \E id \in PesIds \cup BadPesIds :
         \E df \in BOOLEAN : \E ef \in ExtraFields :
           CallAtTime(k, dt, id, df, ef)
    \/ \E isdate \in BOOLEAN : \E d \in Days : \E id \in PesIds \cup BadPesIds :
         \E df \in BOOLEAN : \E ef \in ExtraFields :
           CallDayPeak(isdate, d, id, df, ef)
    \/ \E isdate \in BOOLEAN : \E d \in Days : \E id \in PesIds \cup BadPesIds :
         CallDayEnergy(isdate, d, id)
    \/ BetweenRequest
    \/ BetweenReturn
    \/ \E r \in AllResponses : FetchAttempt(r)
    \/ FetchExhausted
    \/ FetchParseError
    \/ FetchReturn
    \/ PointReturn
    \/ DayPeakReturn
    \/ DayEnergyReturn

Spec == Init /\ [][Next]_vars

(***************************************************************************)
(* _nearest_hh as a function of its argument: the argument is drawn from   *)
(* NhInputs and _nearest_hh is applied to it, and then to its own result.  *)
(***************************************************************************)
NhMinutes == {0, 1, 29, 30, 31, 59}

NhSeconds == {0, 1, 59}

NhMicroseconds == {0, 1, 999999}

NhInputs ==
    {DT(timedelta(0, 60 * h + m, s), u) :
        h \in 0..MaxHour, m \in NhMinutes, s \in NhSeconds, u \in NhMicroseconds}

InitNorm ==
    /\ retries = 0
    /\ pc = "norm"
    /\ InitLocals
    /\ nh_in \in NhInputs
    /\ nh_out = << >>

NearestHH ==
    /\ pc = "norm"
    /\ Len(nh_out) < 2
    /\ nh_out' = Append(nh_out,
                   _nearest_hh(IF nh_out = << >> THEN nh_in ELSE nh_out[Len(nh_out)]))
    /\ UNCHANGED <<retries, pc, op, outcome, callVars, betweenVars, fetchVars,
                   nh_in>>

NextNorm == NearestHH

SpecNorm == InitNorm /\ [][NextNorm]_vars

(***************************************************************************)
(* Properties of _fetch_url                                                *)
(***************************************************************************)
RECURSIVE Pow2(_)
Pow2(n) == IF n = 0 THEN 1 ELSE 2 * Pow2(n - 1)

Kinds(g) == [i \in 1..Len(g) |-> g[i].kind]

FetchOver == fetched.kind # "pending"

\* C1: a fetch makes at most retries + 1 GET attempts, and none after an
\* attempt that returned a successful status.
C1_AttemptsBounded ==
    /\ Len(gets) <= retries + 1
    /\ try_counter = Len(gets)
    /\ \A i \in 1..Len(gets) : gets[i].kind = "OK" => i = Len(gets)

\* a fetch that used its whole budget of several attempts and ended in a
\* success
C1_Witness ==
    /\ FetchOver
    /\ retries >= 1
    /\ Len(gets) = retries + 1
    /\ gets[Len(gets)].kind = "OK"

\* C2: when the responses were k - 1 HTTP error statuses followed by a
\* successful status, the fetch made exactly k attempts and returned the
\* parsed body of the k-th response (a body that is not JSON has no payload:
\* the fetch then raises PVLiveException, still after k attempts).
C2_FirstSuccessReturned ==
    FetchOver =>
        \A k \in 1..Len(gets) :
            (gets[k].kind = "OK" /\ \A j \in 1..(k - 1) : gets[j].kind = "HTTPError")
            => /\ Len(gets) = k
               /\ try_counter = k
               /\ IF IsJson(gets[k].text)
                  THEN /\ fetched.kind = "return"
                       /\ fetched.value = json_loads(gets[k].text)
                  ELSE fetched.kind = "PVLiveException"

\* [error, error, success] with retries = 3: three attempts and the payload
C2_Witness ==
    /\ retries = 3
    /\ Kinds(gets) = <<"HTTPError", "HTTPError", "OK">>
    /\ try_counter = 3
    /\ fetched.kind = "return"
    /\ fetched.value.data = <<Row(3, Val(40))>>

\* C3: when every attempt returned an HTTP error status, the fetch made
\* exactly retries + 1 attempts and raised PVLiveException.
C3_AllErrorsExhaust ==
    (FetchOver /\ \A i \in 1..Len(gets) : gets[i].kind = "HTTPError")
    => /\ Len(gets) = retries + 1
       /\ try_counter = retries + 1
       /\ fetched.kind = "PVLiveException"
       /\ outcome = "PVLiveException"
       /\ pc = "done"

C3_Witness ==
    /\ FetchOver
    /\ retries = 3
    /\ Kinds(gets) = <<"HTTPError", "HTTPError", "HTTPError", "HTTPError">>
    /\ outcome = "PVLiveException"

\* C4: an attempt that fails with a failure other than an HTTP error status
\* is the last attempt; it is followed by no sleep; the operation ends with
\* that failure itself, whatever the retry budget left.
C4_TransportErrorPropagates ==
    \A i \in 1..Len(gets) :
        gets[i].kind = "ConnectionError"
        => /\ i = Len(gets)
           /\ try_counter = i
           /\ Len(sleeps) = i - 1
           /\ fetched.kind = "ConnectionError"
           /\ outcome = "ConnectionError"
           /\ pc = "done"

\* a connection error on the second attempt, with budget left
C4_Witness ==
    /\ retries = 3
    /\ Kinds(gets) = <<"HTTPError", "ConnectionError">>
    /\ outcome = "ConnectionError"

\* C5: the sleep after the i-th HTTP error status lasts 2^(i-1); there is one
\* sleep per HTTP error status.
C5_DelayDoubles ==
    /\ Len(sleeps) = Cardinality({i \in 1..Len(gets) : gets[i].kind = "HTTPError"})
    /\ \A i \in 1..Len(sleeps) : sleeps[i] = Pow2(i - 1)
    /\ delay = Pow2(Len(sleeps))

C5_Witness ==
    /\ sleeps = <<1, 2, 4>>
    /\ delay = 8

(***************************************************************************)
(* Properties of _nearest_hh                                               *)
(***************************************************************************)
OnBoundary(dt) == minute(dt) % 30 = 0 /\ second(dt) = 0 /\ microsecond(dt) = 0

\* C6: the result of _nearest_hh on t is the smallest timestamp >= t on a
\* half-hour boundary (minute 0 or 30, seconds and microseconds zero), and t
\* itself when t is on a boundary.
C6_SmallestBoundaryAtOrAfter ==
    Len(nh_out) >= 1 =>
        /\ OnBoundary(nh_out[1])
        /\ Le(nh_in, nh_out[1])
        /\ Lt(Plus(nh_out[1], 0 - one_interval), nh_in)
        /\ OnBoundary(nh_in) => nh_out[1] = nh_in

\* C7: _nearest_hh applied to its own result returns that result.
C7_Idempotent ==
    Len(nh_out) = 2 => nh_out[2] = nh_out[1]

(***************************************************************************)
(* Properties of between                                                   *)
(***************************************************************************)
BetweenReturned == op = "between" /\ pc = "done" /\ outcome = "return"

Covering(t) ==
    {i \in 1..Len(issued) : Le(issued[i].start, t) /\ Le(t, issued[i].end)}

\* C8: once a between query with start <= end has returned, every half-hour
\* timestamp of [start, end] lies in exactly one requested sub-window, and
\* every requested sub-window lies within [start, end].
C8_NoGapsNoOverlaps ==
    (BetweenReturned /\ Le(start, end)) =>
        /\ \A k \in 0..((end.sec - start.sec) \div one_interval) :
               Le(Plus(start, k * one_interval), end)
               => Cardinality(Covering(Plus(start, k * one_interval))) = 1
        /\ \A i \in 1..Len(issued) :
               Le(start, issued[i].start) /\ Le(issued[i].end, end)

\* C9: every requested sub-window spans at most 365 days for region 0 and at
\* most 30 days for another region; every sub-window after the first starts
\* 30 minutes after the end of the one before; a nationwide query over 400
\* days never has more than 2 sub-windows and has returned with exactly 2.
C9_ChunkSpanAndSeam ==
    op = "between" =>
        /\ \A i \in 1..Len(issued) :
               /\ Le(issued[i].start, issued[i].end)
               /\ Le(issued[i].end,
                     Plus(issued[i].start,
                          IF pes_id = 0 THEN 365 * 86400 ELSE 30 * 86400))
        /\ \A i \in 2..Len(issued) :
               issued[i].start = Plus(issued[i - 1].end, 30 * 60)
        /\ (pes_id = 0 /\ end = Plus(start, 400 * 86400))
           => /\ Len(issued) <= 2
              /\ BetweenReturned => Len(issued) = 2

\* a nationwide query over 400 days that returned after 2 sub-windows
C9_Witness ==
    /\ BetweenReturned
    /\ pes_id = 0
    /\ end = Plus(start, 400 * 86400)
    /\ Len(issued) = 2
    /\ issued[2].start = Plus(issued[1].end, 30 * 60)

\* C10: a between query with start <= end and end - start below the limit of
\* its region has issued exactly 1 request when it ends.
C10_SmallWindowOneChunk ==
    (op = "between" /\ pc = "done" /\ Le(start, end)
        /\ Lt(end, Plus(start, IF pes_id = 0 THEN 365 * 86400 ELSE 30 * 86400)))
    => Len(issued) = 1

(***************************************************************************)
(* Properties of the argument checks                                       *)
(***************************************************************************)
Called == op # "none"

\* C11: an operation called with a region id outside [0, 327] (and a valid
\* timestamp or date) issues no request and ends with PVLiveException.
C11_BadRegionRejected ==
    (Called /\ ~ValidPesId(pes_id) /\ ts_kind = "aware")
    => /\ issued = << >>
       /\ pc = "done" => outcome = "PVLiveException"

\* C12: at_time, between, day_peak and day_energy called with a timestamp or
\* date of the wrong type, or at_time and between with a naive timestamp,
\* issue no request and end with PVLiveException.
C12_BadTimestampRejected ==
    (op \in {"at_time", "between", "day_peak", "day_energy"}
        /\ ValidPesId(pes_id) /\ ts_kind # "aware")
    => /\ issued = << >>
       /\ pc = "done" => outcome = "PVLiveException"

(***************************************************************************)
(* Properties of day_peak and day_energy                                   *)
(***************************************************************************)
Present(rows) == {i \in 1..Len(rows) : ~Generation(rows[i]).none}

DayPeakReturned ==
    op = "day_peak" /\ pc = "done" /\ outcome = "return" /\ response.data # << >>

C14_AllNullGivesPlaceholder ==
    (DayPeakReturned /\ ValidPesId(pes_id) /\ Present(response.data) = {})
    => result = Placeholder

\* C14, amended: on a non-empty list of rows that all have a null generation,
\* day_peak returns the first row of the list, with its region id, its
\* timestamp and a null generation.
C14_AllNullGivesFirstRow ==
    (DayPeakReturned /\ Present(response.data) = {})
    => /\ result = response.data[1]
       /\ Generation(result).none
       /\ ~result[1].none /\ ~result[2].none

C14_Witness ==
    /\ DayPeakReturned
    /\ Len(response.data) = 2
    /\ Present(response.data) = {}
    /\ result = Row(1, None)

RECURSIVE SumPresent(_)
SumPresent(rows) ==
    IF rows = << >> THEN 0
    ELSE (IF Generation(rows[1]).none THEN 0 ELSE Generation(rows[1]).v)
         + SumPresent(Tail(rows))

\* C15: day_energy returns None exactly when the response has no rows, and
\* otherwise half the sum of the generations present.
C15_DayEnergyHalfSum ==
    (op = "day_energy" /\ pc = "done" /\ outcome = "return")
    => /\ result = None <=> response.data = << >>
       /\ response.data # << >>
          => /\ ~result.none
             /\ 2 * result.v = SumPresent(response.data)

\* rows [2.0, null, 4.0] give 3.0
C15_Witness ==
    /\ op = "day_energy" /\ pc = "done" /\ outcome = "return"
    /\ Len(response.data) = 3
    /\ Generation(response.data[1]) = Val(20)
    /\ Generation(response.data[2]) = None
    /\ Generation(response.data[3]) = Val(40)
    /\ result = Val(30)

(***************************************************************************)
(* Properties of between and at_time                                       *)
(***************************************************************************)
RECURSIVE Flatten(_)
Flatten(cs) == IF cs = << >> THEN << >> ELSE cs[1] \o Flatten(Tail(cs))

RECURSIVE TotalLen(_)
TotalLen(cs) == IF cs = << >> THEN 0 ELSE Len(cs[1]) + TotalLen(Tail(cs))

\* C16: the rows between has gathered, and those it returns, are the rows of
\* the chunks in the order the chunks were requested, each chunk's rows in
\* the order received; their number is the sum of the chunks' row counts.
C16_Concatenation ==
    op = "between" =>
        /\ data = Flatten(chunks)
        /\ Len(data) = TotalLen(chunks)
        /\ \A i \in 2..Len(issued) : Lt(issued[i - 1].start, issued[i].start)
        /\ BetweenReturned
           => /\ result = Flatten(chunks)
              /\ Len(chunks) = Len(issued)

C16_Witness ==
    /\ BetweenReturned
    /\ chunks = << <<Row(1, Val(20)), Row(2, Val(50))>>, <<Row(3, Val(40))>> >>
    /\ result = <<Row(1, Val(20)), Row(2, Val(50)), Row(3, Val(40))>>

\* C17: at_time on a datetime t issues exactly one query; _compile_params is
\* given a start and no end, and the query has a start and an end parameter
\* that are both the serialization of _nearest_hh(t).
C17_AtTimePointQuery ==
    (op = "at_time" /\ ts_kind # "other")
    => /\ Len(queries) = 1
       /\ issued = <<[start |-> _nearest_hh(nh_in), end |-> NoDT]>>
       /\ {"start", "end"} \subseteq DOMAIN queries[1].params
       /\ queries[1].params["end"] = queries[1].params["start"]
       /\ queries[1].params["start"]
            = replace_utc(isoformat(_nearest_hh(nh_in), ts_kind = "aware"))

\* at_time(00:01:00 UTC) asks for start = end = 00:30:00Z
C17_Witness ==
    /\ op = "at_time" /\ pc = "done"
    /\ nh_in = DT(60, 0)
    /\ Len(queries) = 1
    /\ queries[1].params["start"] = [date |-> 0, time |-> <<0, 30, 0>>, offset |-> "Z"]
    /\ queries[1].params["end"] = [date |-> 0, time |-> <<0, 30, 0>>, offset |-> "Z"]

\* C18: a between query on datetimes with start <= end, none of whose GETs
\* failed in transport, ends by returning or with PVLiveException, with and
\* without data_frame.
C18_BetweenReturnsOrCommunicationError ==
    (op = "between" /\ pc = "done" /\ ts_kind \in {"aware", "naive"}
        /\ Le(start, end)
        /\ \A i \in 1..Len(gets) : gets[i].kind # "ConnectionError")
    => outcome \in {"return", "PVLiveException"}

\* C19: an attempt that returns a successful status and a body that is not
\* JSON is the last attempt; no sleep follows it; the fetch ends with
\* PVLiveException, whatever the retry budget left.
C19_UnparseableBodyFails ==
    \A i \in 1..Len(gets) :
        (gets[i].kind = "OK" /\ ~IsJson(gets[i].text))
        => /\ i = Len(gets)
           /\ try_counter = i
           /\ Len(sleeps) = i - 1
           /\ fetched.kind \in {"pending", "PVLiveException"}
           /\ FetchOver => (outcome = "PVLiveException" /\ pc = "done")
           /\ ~FetchOver => (pc = "fetch" /\ ~FetchCond(success, try_counter, retries))

\* a body that is not JSON on the second attempt, with budget left
C19_Witness ==
    /\ retries = 3
    /\ Kinds(gets) = <<"HTTPError", "OK">>
    /\ ~IsJson(gets[2].text)
    /\ sleeps = <<1>>
    /\ outcome = "PVLiveException"

(***************************************************************************)
(* Termination of between.  The client is one thread that runs its steps,  *)
(* and every GET returns: a step that can be taken is taken.               *)
(***************************************************************************)
SpecFair == Spec /\ WF_vars(Next)

\* C20: a between query ends; each turn of its loop moves request_start
\* forward by max_range + 30 minutes; each chunk makes at most retries + 1
\* attempts; a chunk whose fetch raises PVLiveException ends the query, the
\* chunks requested being those fetched and the failed one.
C20_BetweenTerminates ==
    /\ (op = "between") ~> (pc = "done")
    /\ [][(op = "between" /\ (request_start' # request_start \/ chunks' # chunks))
            => /\ request_start' = Plus(request_start, max_range + 30 * 60)
               /\ Lt(request_start, request_start')
               /\ max_range > 0]_vars
    /\ [](op = "between"
            => /\ Len(gets) <= retries + 1
               /\ fetched.kind = "PVLiveException"
                  => /\ pc = "done"
                     /\ outcome = "PVLiveException"
                     /\ Len(issued) = Len(chunks) + 1)
    /\ [][pc = "done" => pc' = "done" /\ issued' = issued]_vars

\* a query that was ended by the failure of its second chunk
C20_Witness ==
    /\ op = "between" /\ pc = "done"
    /\ outcome = "PVLiveException"
    /\ Len(issued) = 2
    /\ Len(chunks) = 1
    /\ Lt(Plus(issued[2].end, 30 * 60), end)

====
